---- MODULE Spec2Model ----
(***************************************************************************)
(* Model of src/os_project/task_manager.py: the durable suspend/resume     *)
(* scheduler of TaskManagerApp (stop_selected_task, the background thread  *)
(* _suspend_resume_processes, the persisted suspension record) and the     *)
(* startup recovery (check_persisted_suspend_state, ask_and_take_action,   *)
(* _delayed_resume_from_persisted).                                        *)
(*                                                                         *)
(* Time is counted in ticks, TicksPerSecond ticks to the second, so that   *)
(* the truncation int(resume_time - now) of the recovery is visible.       *)
(* Each psutil suspend()/resume() call either succeeds or raises; the      *)
(* outcome is the environment's choice.                                    *)
(***************************************************************************)
EXTENDS Integers, Sequences, FiniteSets, TLC

\* ------------------------------------------------------------------ bounds
MaxPid == 2
MaxThreads == 2
MaxTime == 2
MaxDur == 1
MaxRuns == 2
TicksPerSecond == 2
MaxCpu == 1
MaxIo == 1
MaxDue == 2
MaxRefreshers == 2
MaxTimers == 2

Pids == 1 .. MaxPid
Threads == 1 .. MaxThreads
\* slots for the threads manual_refresh starts
Refreshers == 1 .. MaxRefreshers
\* seconds handed to _suspend_resume_processes, as ticks: a whole number of
\* seconds up to MaxDur; the presets are positive, float(custom_minutes) * 60
\* is of either sign (the entry starts at "0")
Durations == {k * TicksPerSecond : k \in -1 .. MaxDur}

VARIABLES
    app,              \* "running" | "down": the application process
    runs,             \* startups so far
    now,              \* time.time(), in ticks
    file,             \* content of SUSPEND_STATE_FILE
    active_suspended, \* self.active_suspended
    fileActor,        \* who wrote or deleted the file last (history)
    suspended,        \* pids suspended by the app with no resume attempt since
    pc,               \* per suspension thread: its position
    pid_list,         \* per thread: argument pid_list
    seconds,          \* per thread: argument seconds (until resume_time is computed)
    resume_time,      \* per thread: local resume_time (until the sleep is over)
    suspended_pids,   \* per thread: local suspended_pids
    i,                \* per thread: position in the current for loop
    resumed,          \* per thread: local resumed
    saved,            \* per thread: "no" | "ok" | "failed", outcome of the save call (history)
    suspendOk,        \* per thread: pids whose suspend() returned (history)
    suspendFailed,    \* per thread: pids whose suspend() raised (history)
    resumeCalls,      \* per thread: pids on which resume() was called (history)
    overlapped,       \* per thread: requested while another request was waiting (history)
    abandonedWait,    \* the last shutdown interrupted the sleep of a request that had
                      \* written its record and suspended some pid (history)
    rpc,              \* startup recovery: its position
    rstate,           \* recovery: the loaded state (pids, resume_time)
    ri,               \* recovery: position in the resume loop
    rvia,             \* recovery: "none" | "immediate" | "operator" | "delayed"
    rcalls,           \* recovery: pids on which resume() was called (history)
    process_iter,     \* what psutil.process_iter yields now: per pid its row
    last_net_io,      \* self.last_net_io
    all_processes,    \* self.all_processes
    samples,          \* the rows the last aggregation read (history)
    display_due,      \* display_processes callbacks queued with root.after(0, ...)
    memory_limit_entry, \* text of self.memory_limit_entry
    tree,             \* parent rows of self.tree
    alerted_names,    \* self.alerted_names
    toasts,           \* names the last display notified (history)
    shown_limit,      \* the entry text the last display read (history)
    high_since,       \* names notified that have stayed high since (history)
    repeated,         \* names the last display notified although in high_since (history)
    refreshing,       \* self.refreshing
    refresh_pc,       \* per refresh thread: its position in update_processes_list
    refresh_timers,   \* the root.after(update_interval, manual_refresh) timers that are
                      \* pending: how many are armed and how many are due
    refresh_dropped   \* "none" | "timer" | "operator": the last manual_refresh call
                      \* found refreshing set and started nothing (history)

threadVars == <<pc, pid_list, seconds, resume_time, suspended_pids, i, resumed,
                saved, suspendOk, suspendFailed, resumeCalls, overlapped>>
recoveryVars == <<rpc, rstate, ri, rvia, rcalls>>
aggVars == <<process_iter, last_net_io, all_processes, samples, display_due>>
displayVars == <<memory_limit_entry, tree, alerted_names, toasts, shown_limit,
                 high_since, repeated>>
refreshVars == <<refreshing, refresh_pc, refresh_timers, refresh_dropped>>
viewVars == <<aggVars, displayVars, refreshVars>>
schedulerVars == <<app, runs, file, active_suspended, fileActor, suspended,
                   abandonedWait, threadVars, recoveryVars>>
vars == <<app, runs, now, file, active_suspended, fileActor, suspended,
          abandonedWait, threadVars, recoveryVars, viewVars>>

\* ---------------------------------------------------------------- helpers
Absent == [exists |-> FALSE]
NoState == [pids |-> <<>>, resume_time |-> 0]
NoActor == <<"none", 0>>
RecoveryActor == <<"recovery", 0>>
ThreadActor(t) == <<"thread", t>>

Range(s) == {s[k] : k \in 1 .. Len(s)}

RECURSIVE Ascending(_)
\* the pids of a set as the sequence in increasing order
Ascending(S) ==
    IF S = {} THEN <<>>
    ELSE LET m == CHOOSE x \in S : \A y \in S : x <= y
         IN <<m>> \o Ascending(S \ {m})

\* pid lists stop_selected_task can collect: the child rows of one group
PidLists == {Ascending(S) : S \in (SUBSET Pids) \ {{}}}

\* int(x) for x = d / TicksPerSecond: truncation toward zero
IntTrunc(d) ==
    IF d >= 0 THEN d \div TicksPerSecond ELSE -((-d) \div TicksPerSecond)

RecordPids == IF file.exists THEN Range(file.pids) ELSE {}

\* ------------------------------------------------- monitor: initial values
\* self.memory_limit_entry.insert(0, "200"), line 59
DefaultLimit == 200

\* the text of the limit entry: one float() accepts, with its value, or not
NumberEntry(v) == [kind |-> "number", value |-> v]
TextEntry == [kind |-> "text", value |-> 0]

\* no process with this pid / no entry for this pid in last_net_io
NoProcess == [present |-> FALSE]
NoNetIo == [seen |-> FALSE]

\* lines 38-43 and 59 of __init__: nothing sampled or displayed yet
DisplayInit ==
    /\ all_processes = <<>>
    /\ samples = [p \in Pids |-> NoProcess]
    /\ display_due = 0
    /\ memory_limit_entry = NumberEntry(DefaultLimit)
    /\ tree = <<>>
    /\ alerted_names = {}
    /\ toasts = {}
    /\ shown_limit = NumberEntry(DefaultLimit)
    /\ high_since = {}
    /\ repeated = {}

\* no auto-refresh timer is set
NoTimers == [armed |-> 0, due |-> 0]

\* line 38 and the manual_refresh() of line 127: the flag is down and the
\* first refresh thread has been started
RefreshStarted ==
    /\ refreshing = FALSE
    /\ refresh_pc = [r \in Refreshers |-> IF r = 1 THEN "started" ELSE "idle"]
    /\ refresh_timers = NoTimers
    /\ refresh_dropped = "none"

\* the same on a machine with no process to sample
ViewInit ==
    /\ process_iter = [p \in Pids |-> NoProcess]
    /\ last_net_io = [p \in Pids |-> NoNetIo]
    /\ DisplayInit
    /\ RefreshStarted

\* ------------------------------------------------------------------- Init
\* the scheduler and the recovery after TaskManagerApp.__init__ on a machine
\* with no state file
SchedulerInit ==
    /\ app = "running"
    /\ runs = 1
    /\ now = 0
    /\ file = Absent
    /\ active_suspended = Absent
    /\ fileActor = NoActor
    /\ suspended = {}
    /\ abandonedWait = FALSE
    /\ pc = [t \in Threads |-> "idle"]
    /\ pid_list = [t \in Threads |-> <<>>]
    /\ seconds = [t \in Threads |-> 0]
    /\ resume_time = [t \in Threads |-> 0]
    /\ suspended_pids = [t \in Threads |-> <<>>]
    /\ i = [t \in Threads |-> 0]
    /\ resumed = [t \in Threads |-> 0]
    /\ saved = [t \in Threads |-> "no"]
    /\ suspendOk = [t \in Threads |-> {}]
    /\ suspendFailed = [t \in Threads |-> {}]
    /\ resumeCalls = [t \in Threads |-> {}]
    /\ overlapped = [t \in Threads |-> FALSE]
    /\ rpc = "scheduled"
    /\ rstate = NoState
    /\ ri = 0
    /\ rvia = "none"
    /\ rcalls = {}

\* TaskManagerApp.__init__ on a machine with no state file
Init == SchedulerInit /\ ViewInit

\* the Tk main thread is inside check_persisted_suspend_state or
\* ask_and_take_action (resume_pids, clear_suspend_state)
MainThreadBusy == rpc \in {"resume", "clear"} /\ rvia \in {"immediate", "operator"}

\* thread t is inside time.sleep(time_left), line 255
Sleeping(t) == pc[t] = "wait" /\ now < resume_time[t]

\* ------------------------------------------------- persistence helpers
\* the dict save_suspend_state builds; "saved_at" is written and never read,
\* and is left out
SuspendRecord(pl, rt) ==
    [exists |-> TRUE, pids |-> pl, resume_time |-> rt]

\* save_suspend_state(pid_list, resume_time) called by thread t: the file and
\* the in-memory copy are written, or open()/json.dump raise and the
\* exception is swallowed with nothing written
SaveSuspendState(t, pl, rt, ok) ==
    IF ok
    THEN /\ file' = SuspendRecord(pl, rt)
         /\ active_suspended' = SuspendRecord(pl, rt)
         /\ fileActor' = ThreadActor(t)
    ELSE UNCHANGED <<file, active_suspended, fileActor>>

\* clear_suspend_state() called by actor a
ClearSuspendState(a) ==
    /\ file' = Absent
    /\ active_suspended' = Absent
    /\ fileActor' = IF file.exists THEN a ELSE fileActor

\* ------------------------------------------------ content of the file
\* The JSON typing of a file content, as far as load_suspend_state and
\* check_persisted_suspend_state tell contents apart:
\*   kind         "unparseable" (json.load raises), "array" (JSON, but no
\*                object: data.get raises), "object"
\*   pids         "missing", "text" (present, no list), "list"
\*   resume_time  "missing", "number", "numeric_text" (a string float()
\*                accepts), "text", "null", "nan"
\* what json.dump writes for the dict of save_suspend_state
WrittenDocument == [kind |-> "object", pids |-> "list", resume_time |-> "number"]

\* the typing of file content f; a content not written by save_suspend_state
\* carries its typing in the field json
Document(f) == IF "json" \in DOMAIN f THEN f.json ELSE WrittenDocument

\* an element of a pids list that is no integer: int(pid) raises on it
NonInteger == MaxPid + 1

\* a content not written by this program's save_suspend_state (edited,
\* truncated by a kill inside json.dump, written by something else); pids and
\* resume_time hold the values where the typing has them
ForeignFile(pl, rt, d) ==
    [exists |-> TRUE, pids |-> pl, resume_time |-> rt, json |-> d]

\* ------------------------------------------------- stop_selected_task
\* STOP pressed on a group with child rows pl, duration secs, confirmed by the
\* operator: a daemon thread is started on _suspend_resume_processes. Each
\* thread slot serves one request. The operator is taken not to press STOP
\* in the 500 ms before check_persisted_suspend_state runs (line 132).
StopSelectedTask(t, pl, secs) ==
    /\ app = "running"
    /\ ~MainThreadBusy
    /\ rpc # "scheduled"
    /\ now < MaxTime
    /\ pc[t] = "idle"
    /\ \A u \in Threads : u < t => pc[u] # "idle"
    /\ pc' = [pc EXCEPT ![t] = "start"]
    /\ pid_list' = [pid_list EXCEPT ![t] = pl]
    /\ seconds' = [seconds EXCEPT ![t] = secs]
    /\ overlapped' = [overlapped EXCEPT ![t] = \E u \in Threads : Sleeping(u)]
    /\ UNCHANGED <<app, runs, now, file, active_suspended, fileActor, suspended,
                   abandonedWait, resume_time, suspended_pids, i, resumed, saved,
                   suspendOk, suspendFailed, resumeCalls, recoveryVars>>
    /\ UNCHANGED viewVars

\* ------------------------------------------ _suspend_resume_processes
\* mutant of SavedPids: the list of the pids suspended so far is persisted
SavedPidsSucceeded(t) == suspended_pids[t]

\* the pid list handed to save_suspend_state, line 231
SavedPids(t) == pid_list[t]

\* mutant of ThreadSave: the thread goes on to the suspend loop without having
\* called save_suspend_state
ThreadSaveSkipped(t) ==
    /\ app = "running"
    /\ pc[t] = "start"
    /\ resume_time' = [resume_time EXCEPT ![t] = now + seconds[t]]
    /\ pc' = [pc EXCEPT ![t] = "suspend"]
    /\ i' = [i EXCEPT ![t] = 1]
    /\ seconds' = [seconds EXCEPT ![t] = 0]
    /\ UNCHANGED <<app, runs, now, file, active_suspended, fileActor, suspended,
                   abandonedWait, pid_list, suspended_pids, resumed, saved, suspendOk,
                   suspendFailed, resumeCalls, overlapped, recoveryVars>>
    /\ UNCHANGED viewVars

\* lines 228-233: resume_time is computed and the state is persisted
ThreadSave(t) ==
    /\ app = "running"
    /\ pc[t] = "start"
    /\ \E ok \in BOOLEAN :
          /\ SaveSuspendState(t, SavedPids(t), now + seconds[t], ok)
          /\ saved' = [saved EXCEPT ![t] = IF ok THEN "ok" ELSE "failed"]
    /\ resume_time' = [resume_time EXCEPT ![t] = now + seconds[t]]
    /\ pc' = [pc EXCEPT ![t] = "suspend"]
    /\ i' = [i EXCEPT ![t] = 1]
    /\ seconds' = [seconds EXCEPT ![t] = 0]
    /\ UNCHANGED <<app, runs, now, suspended, abandonedWait, pid_list,
                   suspended_pids, resumed, suspendOk, suspendFailed, resumeCalls,
                   overlapped, recoveryVars>>
    /\ UNCHANGED viewVars

\* lines 236-243: one iteration of the suspend loop; after the last one the
\* thread computes time_left and sleeps (lines 253-255)
ThreadSuspend(t) ==
    /\ app = "running"
    /\ pc[t] = "suspend"
    /\ LET pid == pid_list[t][i[t]] IN
       \E ok \in BOOLEAN :
          IF ok
          THEN /\ suspended' = suspended \cup {pid}
               /\ suspended_pids' = [suspended_pids EXCEPT ![t] = Append(@, pid)]
               /\ suspendOk' = [suspendOk EXCEPT ![t] = @ \cup {pid}]
               /\ UNCHANGED suspendFailed
          ELSE /\ suspendFailed' = [suspendFailed EXCEPT ![t] = @ \cup {pid}]
               /\ UNCHANGED <<suspended, suspended_pids, suspendOk>>
    /\ i' = [i EXCEPT ![t] = @ + 1]
    /\ pc' = [pc EXCEPT ![t] = IF i[t] = Len(pid_list[t]) THEN "wait" ELSE "suspend"]
    /\ UNCHANGED <<app, runs, now, file, active_suspended, fileActor, abandonedWait,
                   pid_list, seconds, resume_time, resumed, saved, resumeCalls,
                   overlapped, recoveryVars>>
    /\ UNCHANGED viewVars

\* the pids the resume loop of line 259 iterates over
ResumeTargets(t) == suspended_pids[t]

\* mutant of ThreadWake: the wait is given up before resume_time is reached
ThreadWakeEarly(t) ==
    /\ app = "running"
    /\ pc[t] = "wait"
    /\ pc' = [pc EXCEPT ![t] = IF ResumeTargets(t) = <<>> THEN "clear" ELSE "resume"]
    /\ i' = [i EXCEPT ![t] = 1]
    /\ resume_time' = [resume_time EXCEPT ![t] = 0]
    /\ UNCHANGED <<app, runs, now, file, active_suspended, fileActor, suspended,
                   abandonedWait, pid_list, seconds, suspended_pids,
                   resumed, saved, suspendOk, suspendFailed, resumeCalls, overlapped,
                   recoveryVars>>
    /\ UNCHANGED viewVars

\* lines 253-255: time.sleep(time_left) is over once resume_time is reached
ThreadWake(t) ==
    /\ app = "running"
    /\ pc[t] = "wait"
    /\ now >= resume_time[t]
    /\ pc' = [pc EXCEPT ![t] = IF ResumeTargets(t) = <<>> THEN "clear" ELSE "resume"]
    /\ i' = [i EXCEPT ![t] = 1]
    /\ resume_time' = [resume_time EXCEPT ![t] = 0]
    /\ UNCHANGED <<app, runs, now, file, active_suspended, fileActor, suspended,
                   abandonedWait, pid_list, seconds, suspended_pids,
                   resumed, saved, suspendOk, suspendFailed, resumeCalls, overlapped,
                   recoveryVars>>
    /\ UNCHANGED viewVars

\* mutant of AfterResume: a resume() that raises ends the loop
AfterResumeStopsOnFailure(t, ok) ==
    IF ~ok \/ i[t] = Len(ResumeTargets(t)) THEN "clear" ELSE "resume"

\* where the resume loop goes after the call on element i: the except clause
\* passes, so the loop goes on whether or not resume() raised
AfterResume(t, ok) ==
    IF i[t] = Len(ResumeTargets(t)) THEN "clear" ELSE "resume"

\* lines 259-264: one iteration of the resume loop
ThreadResume(t) ==
    /\ app = "running"
    /\ pc[t] = "resume"
    /\ LET pid == ResumeTargets(t)[i[t]] IN
       \E ok \in BOOLEAN :
          /\ suspended' = suspended \ {pid}
          /\ resumeCalls' = [resumeCalls EXCEPT ![t] = @ \cup {pid}]
          /\ resumed' = [resumed EXCEPT ![t] = IF ok THEN @ + 1 ELSE @]
          /\ pc' = [pc EXCEPT ![t] = AfterResume(t, ok)]
    /\ i' = [i EXCEPT ![t] = @ + 1]
    /\ UNCHANGED <<app, runs, now, file, active_suspended, fileActor, abandonedWait,
                   pid_list, seconds, resume_time, suspended_pids, saved, suspendOk,
                   suspendFailed, overlapped, recoveryVars>>
    /\ UNCHANGED viewVars

\* mutant of ThreadClear: the record is cleared only when some resume succeeded
ThreadClearIfResumed(t) ==
    /\ app = "running"
    /\ pc[t] = "clear"
    /\ IF resumed[t] > 0
       THEN ClearSuspendState(ThreadActor(t))
       ELSE UNCHANGED <<file, active_suspended, fileActor>>
    /\ pc' = [pc EXCEPT ![t] = "done"]
    /\ pid_list' = [pid_list EXCEPT ![t] = <<>>]
    /\ seconds' = [seconds EXCEPT ![t] = 0]
    /\ resume_time' = [resume_time EXCEPT ![t] = 0]
    /\ suspended_pids' = [suspended_pids EXCEPT ![t] = <<>>]
    /\ i' = [i EXCEPT ![t] = 0]
    /\ resumed' = [resumed EXCEPT ![t] = 0]
    /\ suspendOk' = [suspendOk EXCEPT ![t] = {}]
    /\ suspendFailed' = [suspendFailed EXCEPT ![t] = {}]
    /\ resumeCalls' = [resumeCalls EXCEPT ![t] = {}]
    /\ saved' = [saved EXCEPT ![t] = "no"]
    /\ overlapped' = [overlapped EXCEPT ![t] = FALSE]
    /\ UNCHANGED <<app, runs, now, suspended, abandonedWait, recoveryVars>>
    /\ UNCHANGED viewVars

\* lines 267-273: the persisted state is cleared and the thread ends
ThreadClear(t) ==
    /\ app = "running"
    /\ pc[t] = "clear"
    /\ ClearSuspendState(ThreadActor(t))
    /\ pc' = [pc EXCEPT ![t] = "done"]
    /\ pid_list' = [pid_list EXCEPT ![t] = <<>>]
    /\ seconds' = [seconds EXCEPT ![t] = 0]
    /\ resume_time' = [resume_time EXCEPT ![t] = 0]
    /\ suspended_pids' = [suspended_pids EXCEPT ![t] = <<>>]
    /\ i' = [i EXCEPT ![t] = 0]
    /\ resumed' = [resumed EXCEPT ![t] = 0]
    /\ suspendOk' = [suspendOk EXCEPT ![t] = {}]
    /\ suspendFailed' = [suspendFailed EXCEPT ![t] = {}]
    /\ resumeCalls' = [resumeCalls EXCEPT ![t] = {}]
    /\ saved' = [saved EXCEPT ![t] = "no"]
    /\ overlapped' = [overlapped EXCEPT ![t] = FALSE]
    /\ UNCHANGED <<app, runs, now, suspended, abandonedWait, recoveryVars>>
    /\ UNCHANGED viewVars

\* the message boxes thread t has queued on the Tk main thread when it is at
\* its position: showinfo "Stopped" once the suspend loop is over (lines
\* 246-249); showinfo "Resumed" is queued as the thread ends (line 273).
\* save_suspend_state swallows the exception of a failed write and returns
\* None either way (lines 147-148), so no box depends on the outcome
ThreadMessages(t) ==
    IF pc[t] \in {"wait", "resume", "clear"}
    THEN {[box |-> "showinfo", title |-> "Stopped", count |-> Len(suspended_pids[t])]}
    ELSE {}

\* ------------------------------------------------ startup recovery
\* load_suspend_state(): the file's dict when it exists and is valid, None
\* (here Absent) otherwise: no file (line 153); json.load raises, or data is
\* no dict and data.get raises (line 161); pids is no list or resume_time is
\* missing (line 158)
LoadSuspendState ==
    LET data == Document(file) IN
    IF ~file.exists THEN Absent
    ELSE IF data.kind # "object" THEN Absent
    ELSE IF data.pids # "list" \/ data.resume_time = "missing" THEN Absent
    ELSE file

\* float(state.get("resume_time", 0)) raises on a string that is no number
\* and on null (line 650); int(resume_time - now) raises on NaN (line 652)
FloatRaises(state) == Document(state).resume_time \in {"text", "null", "nan"}

\* remaining = int(resume_time - now), line 652
Remaining(rt) == IntTrunc(rt - now)

\* mutant of ResumeImmediately: a deadline reached exactly now is not overdue
ResumeImmediatelyStrict(rt) == Remaining(rt) < 0

\* the test of line 654
ResumeImmediately(rt) == Remaining(rt) <= 0

\* check_persisted_suspend_state, lines 645-654 and 684: the state is loaded;
\* with none the check returns, with remaining <= 0 it goes on to resume_pids,
\* otherwise it schedules ask_and_take_action; when float() or int() raise the
\* callback ends there with the exception ("raised")
RecoveryLoad ==
    /\ app = "running"
    /\ rpc = "scheduled"
    /\ LET state == LoadSuspendState IN
       IF ~state.exists
       THEN /\ rpc' = "done"
            /\ UNCHANGED <<rstate, ri, rvia>>
       ELSE IF FloatRaises(state)
       THEN /\ rpc' = "raised"
            /\ UNCHANGED <<rstate, ri, rvia>>
       ELSE /\ rstate' = [pids |-> state.pids, resume_time |-> state.resume_time]
            /\ IF ResumeImmediately(state.resume_time)
               THEN /\ rvia' = "immediate"
                    /\ rpc' = IF state.pids = <<>> THEN "clear" ELSE "resume"
                    /\ ri' = 1
               ELSE /\ rpc' = "prompt"
                    /\ UNCHANGED <<ri, rvia>>
    /\ UNCHANGED <<app, runs, now, file, active_suspended, fileActor, suspended,
                   abandonedWait, threadVars, rcalls>>
    /\ UNCHANGED viewVars

\* ask_and_take_action, lines 664-681: the operator answers the prompt, or the
\* message box raises; on "yes" the pids are resumed now, otherwise a daemon
\* thread is started on _delayed_resume_from_persisted
RecoveryPrompt ==
    /\ app = "running"
    /\ rpc = "prompt"
    /\ \E ans \in {"yes", "no", "raises"} :
          IF ans = "yes"
          THEN /\ rvia' = "operator"
               /\ rpc' = IF rstate.pids = <<>> THEN "clear" ELSE "resume"
               /\ ri' = 1
          ELSE /\ rvia' = "delayed"
               /\ rpc' = "wait"
               /\ UNCHANGED ri
    /\ UNCHANGED <<app, runs, now, file, active_suspended, fileActor, suspended,
                   abandonedWait, threadVars, rstate, rcalls>>
    /\ UNCHANGED viewVars

\* mutant of DelayedWake: the delayed resume does not wait for resume_time
DelayedWakeAtOnce ==
    /\ app = "running"
    /\ rpc = "wait"
    /\ rpc' = IF rstate.pids = <<>> THEN "clear" ELSE "resume"
    /\ ri' = 1
    /\ UNCHANGED <<app, runs, now, file, active_suspended, fileActor, suspended,
                   abandonedWait, threadVars, rstate, rvia, rcalls>>
    /\ UNCHANGED viewVars

\* _delayed_resume_from_persisted, lines 688-691: the sleep is over once
\* resume_time is reached
DelayedWake ==
    /\ app = "running"
    /\ rpc = "wait"
    /\ now >= rstate.resume_time
    /\ rpc' = IF rstate.pids = <<>> THEN "clear" ELSE "resume"
    /\ ri' = 1
    /\ UNCHANGED <<app, runs, now, file, active_suspended, fileActor, suspended,
                   abandonedWait, threadVars, rstate, rvia, rcalls>>
    /\ UNCHANGED viewVars

\* one iteration of the loop of resume_pids (lines 278-283) or of
\* _delayed_resume_from_persisted (lines 693-698): resume() is called on the
\* pid and a failure is passed over
RecoveryResume ==
    /\ app = "running"
    /\ rpc = "resume"
    /\ LET pid == rstate.pids[ri] IN
          /\ suspended' = suspended \ {pid}
          /\ rcalls' = rcalls \cup {pid}
    /\ ri' = ri + 1
    /\ rpc' = IF ri = Len(rstate.pids) THEN "clear" ELSE "resume"
    /\ UNCHANGED <<app, runs, now, file, active_suspended, fileActor, abandonedWait,
                   threadVars, rstate, rvia>>
    /\ UNCHANGED viewVars

\* clear_suspend_state() of lines 657, 673 and 700
RecoveryClear ==
    /\ app = "running"
    /\ rpc = "clear"
    /\ ClearSuspendState(RecoveryActor)
    /\ rpc' = "done"
    /\ UNCHANGED <<app, runs, now, suspended, abandonedWait, threadVars, rstate, ri,
                   rvia, rcalls>>
    /\ UNCHANGED viewVars

\* ------------------------------------------------------ names and keys
\* A name is the sequence of its characters.
DotExe == <<".", "e", "x", "e">>
Unknown == <<"u", "n", "k", "n", "o", "w", "n">>
DigitChars == <<"0", "1", "2", "3", "4", "5", "6", "7", "8", "9">>

\* str.lower() on one character of the alphabet in use
LowerChar(c) ==
    CASE c = "A" -> "a"
      [] c = "B" -> "b"
      [] c = "E" -> "e"
      [] c = "X" -> "x"
      [] OTHER -> c

\* str.lower()
Lower(n) == [k \in 1 .. Len(n) |-> LowerChar(n[k])]

RECURSIVE Strip(_)
\* str.strip(): leading and trailing blanks are dropped
Strip(n) ==
    IF n = <<>> THEN n
    ELSE IF Head(n) = " " THEN Strip(Tail(n))
    ELSE IF n[Len(n)] = " " THEN Strip(SubSeq(n, 1, Len(n) - 1))
    ELSE n

\* str.endswith(suffix)
EndsWith(n, suffix) ==
    /\ Len(n) >= Len(suffix)
    /\ SubSeq(n, Len(n) - Len(suffix) + 1, Len(n)) = suffix

\* needle in hay, for strings
Contains(hay, needle) ==
    \E k \in 1 .. Len(hay) + 1 :
        /\ k + Len(needle) - 1 <= Len(hay)
        /\ SubSeq(hay, k, k + Len(needle) - 1) = needle

RECURSIVE Str(_)
\* str(pid): the decimal digits
Str(n) ==
    IF n < 10 THEN <<DigitChars[n + 1]>>
    ELSE Str(n \div 10) \o <<DigitChars[(n % 10) + 1]>>

\* raw_name = (info.get('name') or "unknown").strip(), line 334
RawName(name) == Strip(IF name = <<>> THEN Unknown ELSE name)

\* mutant of GroupKey: every process is grouped by its lower-cased name
GroupKeyByName(name_lower, pid) == name_lower

\* lines 337-342: the key of the group a process goes to
GroupKey(name_lower, pid) ==
    IF EndsWith(name_lower, DotExe) THEN name_lower
    ELSE name_lower \o <<"_">> \o Str(pid)

\* ------------------------------------------------- update_processes_list
\* self.CPU_TDP_WATTS, line 36
CPU_TDP_WATTS == 15

\* 1 / 0.001: the floor of dt on line 311 is a thousandth of a second
PerEpsilon == 1000

Max(a, b) == IF a >= b THEN a ELSE b

\* _estimate_power_mw, line 300: (cpu_pct / 100.0) * CPU_TDP_WATTS * 1000.0
EstimatePowerMw(cpu_pct) == cpu_pct * CPU_TDP_WATTS * 10

\* _get_network_kbps_for_pid, lines 306-316, with io_counters() taken to
\* succeed: counters in KB, time in ticks, the quotient rounded down to whole
\* KB/s; 0 for a pid with no earlier counter
NetworkKbps(pid, total_bytes, t, lio) ==
    IF lio[pid].seen
    THEN LET delta == total_bytes - lio[pid].bytes
             dt == t - lio[pid].time
             kbps == IF dt <= 0 THEN delta * PerEpsilon
                     ELSE (delta * TicksPerSecond) \div dt
         IN Max(kbps, 0)
    ELSE 0

\* position of the group with this key in the dict processes, 0 if none
IndexOfKey(processes, key) ==
    IF \E k \in 1 .. Len(processes) : processes[k].key = key
    THEN CHOOSE k \in 1 .. Len(processes) : processes[k].key = key
    ELSE 0

\* lines 354-363: a new, empty group
NewGroup(key, display_name) ==
    [key |-> key, display_name |-> display_name, pids |-> <<>>,
     cpu |-> 0, memory |-> 0, power |-> 0, network |-> 0, per_pid |-> <<>>]

\* the dict agg["per_pid"] with pid set to d; a dict is kept as the function
\* from its keys
SetItem(per_pid, pid, d) ==
    [q \in DOMAIN per_pid \cup {pid} |-> IF q = pid THEN d ELSE per_pid[q]]

\* mutant of AddToGroup: the memory of a group is that of its last process
AddToGroupLastMemory(agg, pid, d) ==
    [agg EXCEPT !.pids = Append(@, pid),
                !.cpu = @ + d.cpu,
                !.memory = d.memory,
                !.power = @ + d.power,
                !.network = @ + d.network,
                !.per_pid = SetItem(@, pid, d)]

\* lines 365-376: one process is added to its group
AddToGroup(agg, pid, d) ==
    [agg EXCEPT !.pids = Append(@, pid),
                !.cpu = @ + d.cpu,
                !.memory = @ + d.memory,
                !.power = @ + d.power,
                !.network = @ + d.network,
                !.per_pid = SetItem(@, pid, d)]

RECURSIVE AggregateFromAborting(_, _, _, _, _)
\* mutant of AggregateFrom: a process whose detail read raises ends the loop
AggregateFromAborting(pid, table, t, processes, lio) ==
    IF pid > MaxPid THEN [processes |-> processes, last_net_io |-> lio]
    ELSE
    LET row == table[pid] IN
    IF ~row.present
    THEN AggregateFromAborting(pid + 1, table, t, processes, lio)
    ELSE IF row.raises
    THEN [processes |-> processes, last_net_io |-> lio]
    ELSE
    LET raw_name == RawName(row.name)
        key == GroupKey(Lower(raw_name), pid)
        d == [cpu |-> row.cpu, memory |-> row.memory,
              power |-> EstimatePowerMw(row.cpu),
              network |-> NetworkKbps(pid, row.io, t, lio)]
        at == IndexOfKey(processes, key)
        known == IF at = 0 THEN Append(processes, NewGroup(key, raw_name))
                 ELSE processes
        k == IF at = 0 THEN Len(known) ELSE at
    IN AggregateFromAborting(pid + 1, table, t,
                     [known EXCEPT ![k] = AddToGroup(@, pid, d)],
                     [lio EXCEPT ![pid] = [seen |-> TRUE, bytes |-> row.io, time |-> t]])

RECURSIVE AggregateFrom(_, _, _, _, _)
\* the loop of lines 330-381 from pid on, psutil.process_iter yielding the
\* processes by increasing pid; a process whose cpu_percent() raises
\* (NoSuchProcess, AccessDenied) is passed over
AggregateFrom(pid, table, t, processes, lio) ==
    IF pid > MaxPid THEN [processes |-> processes, last_net_io |-> lio]
    ELSE
    LET row == table[pid] IN
    IF ~row.present \/ row.raises
    THEN AggregateFrom(pid + 1, table, t, processes, lio)
    ELSE
    LET raw_name == RawName(row.name)
        key == GroupKey(Lower(raw_name), pid)
        d == [cpu |-> row.cpu, memory |-> row.memory,
              power |-> EstimatePowerMw(row.cpu),
              network |-> NetworkKbps(pid, row.io, t, lio)]
        at == IndexOfKey(processes, key)
        known == IF at = 0 THEN Append(processes, NewGroup(key, raw_name))
                 ELSE processes
        k == IF at = 0 THEN Len(known) ELSE at
    IN AggregateFrom(pid + 1, table, t,
                     [known EXCEPT ![k] = AddToGroup(@, pid, d)],
                     [lio EXCEPT ![pid] = [seen |-> TRUE, bytes |-> row.io, time |-> t]])

RECURSIVE InsertByCpu(_, _)
\* g put behind the groups of sorted whose cpu is not lower
InsertByCpu(sorted, g) ==
    IF sorted = <<>> THEN <<g>>
    ELSE IF Head(sorted).cpu >= g.cpu THEN <<Head(sorted)>> \o InsertByCpu(Tail(sorted), g)
    ELSE <<g>> \o sorted

RECURSIVE SortByCpu(_)
\* aggregated_list.sort(key=lambda x: x["cpu"], reverse=True), line 384: stable
SortByCpu(groups) ==
    IF groups = <<>> THEN <<>>
    ELSE InsertByCpu(SortByCpu(SubSeq(groups, 1, Len(groups) - 1)), groups[Len(groups)])

\* memory_limit of display_processes, lines 397-402
MemoryLimit(entry) ==
    IF entry.kind = "number"
    THEN IF entry.value < 0 THEN 0 ELSE entry.value
    ELSE 0

\* mutant of IsHigh: the limit is not tested for being positive
IsHighUnguarded(memory_limit, mem_sum) == mem_sum > memory_limit

\* the test of line 416
IsHigh(memory_limit, mem_sum) == memory_limit > 0 /\ mem_sum > memory_limit

\* display names of the groups of processes that are over the limit of entry
HighNames(processes, entry) ==
    {processes[k].display_name : k \in
        {j \in 1 .. Len(processes) : IsHigh(MemoryLimit(entry), processes[j].memory)}}

\* mutant of FreshProcesses: the groups of the last cycle are added to
StaleProcesses == all_processes

\* processes = {}, line 327: every cycle starts from no group
FreshProcesses == <<>>

\* lines 327-388 of update_processes_list: the processes are sampled and
\* grouped, the list is published and a display is queued
PublishAggregate ==
    /\ LET r == AggregateFrom(1, process_iter, now, FreshProcesses, last_net_io) IN
          /\ all_processes' = SortByCpu(r.processes)
          /\ last_net_io' = r.last_net_io
    /\ samples' = process_iter
    /\ display_due' = display_due + 1
    /\ high_since' = high_since \cap HighNames(all_processes', memory_limit_entry)

\* self.root.after(self.update_interval, self.manual_refresh), line 390: one
\* more timer is armed; it is due once update_interval has passed
NextAutoRefresh(timers) == [timers EXCEPT !.armed = @ + 1]

\* the number of timers that have not fired
Pending(timers) == timers.armed + timers.due

\* one timer fires: a due one, or an armed one whose interval has passed
FiredOne(timers) ==
    IF timers.due > 0 THEN [timers EXCEPT !.due = @ - 1]
    ELSE [timers EXCEPT !.armed = @ - 1]

\* the refresh threads that were started and have not reached line 326
StartedRefreshers == {r \in Refreshers : refresh_pc[r] = "started"}

\* the lowest slot of a set of refresh threads
Lowest(S) == CHOOSE r \in S : \A q \in S : r <= q

\* one whole refresh cycle with no other refresh beside it: the thread
\* started by __init__, or the one manual_refresh starts when a pending timer
\* fires with the flag down, runs update_processes_list from line 326 to
\* line 391
UpdateProcessesList ==
    /\ app = "running"
    /\ display_due < MaxDue
    /\ ~refreshing
    /\ \A r \in Refreshers : refresh_pc[r] \in {"idle", "started"}
    /\ IF StartedRefreshers # {}
       THEN /\ refresh_pc' = [refresh_pc EXCEPT ![Lowest(StartedRefreshers)] = "idle"]
            /\ refresh_timers' = NextAutoRefresh(refresh_timers)
       ELSE /\ Pending(refresh_timers) > 0
            /\ refresh_timers' = NextAutoRefresh(FiredOne(refresh_timers))
            /\ UNCHANGED refresh_pc
    /\ refreshing' = FALSE
    /\ refresh_dropped' = "none"
    /\ PublishAggregate
    /\ UNCHANGED <<now, schedulerVars, process_iter, memory_limit_entry, tree,
                   alerted_names, toasts, shown_limit, repeated>>

\* --------------------------------------------- refresh, step by step
\* manual_refresh, lines 321-323, called by a timer or by the operator: with
\* the flag down a thread is started on update_processes_list, with the flag
\* up nothing is done
ManualRefresh(origin) ==
    IF ~refreshing
    THEN LET idle == {r \in Refreshers : refresh_pc[r] = "idle"} IN
         /\ idle # {}
         /\ refresh_pc' = [refresh_pc EXCEPT ![Lowest(idle)] = "started"]
         /\ refresh_dropped' = "none"
    ELSE /\ refresh_dropped' = origin
         /\ UNCHANGED refresh_pc

\* update_interval (line 37) passes: the timers that were armed are due
IntervalPasses ==
    /\ app = "running"
    /\ refresh_timers.armed > 0
    /\ refresh_timers' = [armed |-> 0, due |-> refresh_timers.due + refresh_timers.armed]
    /\ UNCHANGED <<now, schedulerVars, aggVars, displayVars, refreshing, refresh_pc,
                   refresh_dropped>>

\* a timer set on line 390 is due and fires: the Tk main loop calls
\* manual_refresh
AutoRefreshTimer ==
    /\ app = "running"
    /\ refresh_timers.due > 0
    /\ refresh_timers' = FiredOne(refresh_timers)
    /\ ManualRefresh("timer")
    /\ UNCHANGED <<now, schedulerVars, aggVars, displayVars, refreshing>>

\* the operator presses Refresh (line 63), or end_selected_task ends with its
\* call of manual_refresh (line 558)
OperatorRefresh ==
    /\ app = "running"
    /\ ManualRefresh("operator")
    /\ UNCHANGED <<now, schedulerVars, aggVars, displayVars, refreshing, refresh_timers>>

\* line 326: the thread sets the flag
RefreshBegin(r) ==
    /\ app = "running"
    /\ refresh_pc[r] = "started"
    /\ refresh_pc' = [refresh_pc EXCEPT ![r] = "running"]
    /\ refreshing' = TRUE
    /\ UNCHANGED <<now, schedulerVars, aggVars, displayVars, refresh_timers,
                   refresh_dropped>>

\* lines 327-390: the list is built and published, the display is queued and
\* the next auto refresh is scheduled; the loop of one thread is taken as one
\* step
RefreshPublish(r) ==
    /\ app = "running"
    /\ refresh_pc[r] = "running"
    /\ display_due < MaxDue
    /\ Pending(refresh_timers) < MaxTimers
    /\ refresh_pc' = [refresh_pc EXCEPT ![r] = "ending"]
    /\ refresh_timers' = NextAutoRefresh(refresh_timers)
    /\ PublishAggregate
    /\ UNCHANGED <<now, schedulerVars, process_iter, memory_limit_entry, tree,
                   alerted_names, toasts, shown_limit, repeated, refreshing,
                   refresh_dropped>>

\* line 391: the thread lowers the flag and ends
RefreshEnd(r) ==
    /\ app = "running"
    /\ refresh_pc[r] = "ending"
    /\ refresh_pc' = [refresh_pc EXCEPT ![r] = "idle"]
    /\ refreshing' = FALSE
    /\ UNCHANGED <<now, schedulerVars, aggVars, displayVars, refresh_timers,
                   refresh_dropped>>

\* ------------------------------------------------------ display_processes
\* mutant of Cleanup: names that are no longer high stay in alerted_names
CleanupNothing(alerted, current_high_names) == alerted

\* lines 465-471: the names that are not high now are removed
Cleanup(alerted, current_high_names) ==
    alerted \ {n \in alerted : n \notin current_high_names}

RECURSIVE DisplayLoop(_, _, _, _)
\* the loop of lines 406-462 from position k on; st holds alerted_names,
\* current_high_names, the names notified and the rows inserted so far
DisplayLoop(processes, k, memory_limit, st) ==
    IF k > Len(processes) THEN st
    ELSE
    LET p == processes[k]
        name == p.display_name
        high == IsHigh(memory_limit, p.memory)
        row == [text |-> name, memory |-> p.memory,
                tag |-> IF high THEN "high_memory" ELSE ""]
    IN DisplayLoop(processes, k + 1, memory_limit,
           [alerted |-> IF high THEN st.alerted \cup {name} ELSE st.alerted,
            high |-> IF high THEN st.high \cup {name} ELSE st.high,
            toasts |-> IF high /\ name \notin st.alerted
                       THEN st.toasts \cup {name} ELSE st.toasts,
            rows |-> Append(st.rows, row)])

\* display_processes(processes), lines 394-471
DisplayProcesses(processes) ==
    LET st == DisplayLoop(processes, 1, MemoryLimit(memory_limit_entry),
                          [alerted |-> alerted_names, high |-> {}, toasts |-> {},
                           rows |-> <<>>])
    IN /\ tree' = st.rows
       /\ alerted_names' = Cleanup(st.alerted, st.high)
       /\ toasts' = st.toasts
       /\ shown_limit' = memory_limit_entry
       /\ repeated' = st.toasts \cap high_since
       /\ high_since' = high_since \cup st.toasts

\* the callback queued on line 388: display_processes(self.all_processes)
DisplayCallback ==
    /\ app = "running"
    /\ display_due > 0
    /\ display_due' = display_due - 1
    /\ DisplayProcesses(all_processes)
    /\ UNCHANGED <<now, schedulerVars, process_iter, last_net_io, all_processes,
                   samples, memory_limit_entry, refreshVars>>

\* the filtered list of search_process, lines 503-510
Filtered(processes, query) ==
    SelectSeq(processes,
              LAMBDA p : \/ Contains(Lower(p.display_name), query)
                         \/ \E k \in 1 .. Len(p.pids) : Contains(Str(p.pids[k]), query))

\* search_process with text in the search entry, lines 497-515
SearchProcess(text) ==
    /\ app = "running"
    /\ LET query == Lower(Strip(text)) IN
       IF query = <<>> THEN DisplayProcesses(all_processes)
       ELSE IF Filtered(all_processes, query) = <<>>
       THEN UNCHANGED displayVars
       ELSE DisplayProcesses(Filtered(all_processes, query))
    /\ UNCHANGED <<now, schedulerVars, aggVars, memory_limit_entry, refreshVars>>

\* the operator types entry into the memory limit field
EditMemoryLimit(entry) ==
    /\ app = "running"
    /\ memory_limit_entry # entry
    /\ memory_limit_entry' = entry
    /\ high_since' = high_since \cap HighNames(all_processes, entry)
    /\ UNCHANGED <<now, schedulerVars, aggVars, tree, alerted_names, toasts,
                   shown_limit, repeated, refreshVars>>

\* the processes of the machine change: the row of one pid
ProcessChange(pid, row) ==
    /\ process_iter[pid] # row
    /\ process_iter' = [process_iter EXCEPT ![pid] = row]
    /\ UNCHANGED <<now, schedulerVars, last_net_io, all_processes, samples,
                   display_due, displayVars, refreshVars>>

\* ------------------------------------------------------ environment
\* deadlines some sleeper or the persisted record still waits for
PendingDeadlines ==
    {resume_time[t] : t \in {u \in Threads : pc[u] \in {"suspend", "wait"}}}
        \cup (IF rpc \in {"prompt", "wait"} THEN {rstate.resume_time} ELSE {})
        \cup (IF file.exists THEN {file.resume_time} ELSE {})

\* the clock advances
Tick ==
    /\ \/ now < MaxTime
       \/ \E d \in PendingDeadlines : d > now
    /\ now' = now + 1
    /\ UNCHANGED <<app, runs, file, active_suspended, fileActor, suspended,
                   abandonedWait, threadVars, recoveryVars>>
    /\ UNCHANGED viewVars

\* the application is closed or killed: the daemon threads and the pending Tk
\* callbacks die with it, the file and the suspended processes stay
Shutdown ==
    /\ app = "running"
    /\ runs < MaxRuns
    /\ app' = "down"
    /\ abandonedWait' = \E t \in Threads :
                            Sleeping(t) /\ saved[t] = "ok" /\ suspendOk[t] # {}
    /\ pc' = [t \in Threads |-> IF pc[t] \in {"idle", "done"} THEN pc[t] ELSE "killed"]
    /\ pid_list' = [t \in Threads |-> <<>>]
    /\ seconds' = [t \in Threads |-> 0]
    /\ resume_time' = [t \in Threads |-> 0]
    /\ suspended_pids' = [t \in Threads |-> <<>>]
    /\ i' = [t \in Threads |-> 0]
    /\ resumed' = [t \in Threads |-> 0]
    /\ saved' = [t \in Threads |-> "no"]
    /\ suspendOk' = [t \in Threads |-> {}]
    /\ suspendFailed' = [t \in Threads |-> {}]
    /\ resumeCalls' = [t \in Threads |-> {}]
    /\ overlapped' = [t \in Threads |-> FALSE]
    /\ rpc' = "off"
    /\ rstate' = NoState
    /\ ri' = 0
    /\ rvia' = "none"
    /\ rcalls' = {}
    /\ active_suspended' = Absent
    /\ fileActor' = NoActor
    /\ UNCHANGED <<runs, now, file, suspended>>
    /\ UNCHANGED viewVars

\* the application is started again: __init__, which schedules
\* check_persisted_suspend_state (line 132)
Startup ==
    /\ app = "down"
    /\ app' = "running"
    /\ runs' = runs + 1
    /\ rpc' = "scheduled"
    /\ abandonedWait' = FALSE
    /\ last_net_io' = [p \in Pids |-> NoNetIo]
    /\ all_processes' = <<>>
    /\ samples' = [p \in Pids |-> NoProcess]
    /\ display_due' = 0
    /\ memory_limit_entry' = NumberEntry(DefaultLimit)
    /\ tree' = <<>>
    /\ alerted_names' = {}
    /\ toasts' = {}
    /\ shown_limit' = NumberEntry(DefaultLimit)
    /\ high_since' = {}
    /\ repeated' = {}
    /\ refreshing' = FALSE
    /\ refresh_pc' = [r \in Refreshers |-> IF r = 1 THEN "started" ELSE "idle"]
    /\ refresh_timers' = NoTimers
    /\ refresh_dropped' = "none"
    /\ UNCHANGED <<now, file, active_suspended, fileActor, suspended, threadVars,
                   rstate, ri, rvia, rcalls, process_iter>>

\* ------------------------------------------------------------- Next
ThreadStep(t) ==
    \/ ThreadSave(t)
    \/ ThreadSuspend(t)
    \/ ThreadWake(t)
    \/ ThreadResume(t)
    \/ ThreadClear(t)

RecoveryStep ==
    \/ RecoveryLoad
    \/ RecoveryPrompt
    \/ DelayedWake
    \/ RecoveryResume
    \/ RecoveryClear

Next ==
    \/ \E t \in Threads, pl \in PidLists, secs \in Durations : StopSelectedTask(t, pl, secs)
    \/ \E t \in Threads : ThreadStep(t)
    \/ RecoveryStep
    \/ Tick
    \/ Shutdown
    \/ Startup

Spec == Init /\ [][Next]_vars

\* the first run of the app for as long as it keeps running (no shutdown): the
\* threads and the Tk main loop are scheduled and the clock advances; nothing
\* forces a new request
RunNext ==
    \/ \E t \in Threads, pl \in PidLists, secs \in Durations : StopSelectedTask(t, pl, secs)
    \/ \E t \in Threads : ThreadStep(t)
    \/ RecoveryLoad
    \/ Tick

RunSpec ==
    /\ Init
    /\ [][RunNext]_vars
    /\ \A t \in Threads : WF_vars(ThreadStep(t))
    /\ WF_vars(RecoveryLoad)
    /\ WF_vars(Tick)

\* ------------------------------------------- a startup with a file left
\* pid lists of a content not written by this program
ForeignPidLists == {<<>>, <<NonInteger, 1>>}

\* resume times a left file can hold
LeftResumeTimes == 0 .. MaxTime + 1

\* contents the file can have when the app starts: a record an earlier run
\* wrote, or any other content
LeftFiles ==
    {SuspendRecord(pl, rt) : pl \in PidLists, rt \in LeftResumeTimes}
        \cup {ForeignFile(<<>>, 0, [kind |-> k, pids |-> "missing", resume_time |-> "missing"]) :
                  k \in {"unparseable", "array", "object"}}
        \cup {ForeignFile(<<>>, 0, [kind |-> "object", pids |-> "text", resume_time |-> "number"])}
        \cup {ForeignFile(pl, 0, [kind |-> "object", pids |-> "list", resume_time |-> k]) :
                  pl \in ForeignPidLists, k \in {"missing", "text", "null", "nan"}}
        \cup {ForeignFile(pl, rt, [kind |-> "object", pids |-> "list", resume_time |-> k]) :
                  pl \in ForeignPidLists, rt \in LeftResumeTimes,
                  k \in {"number", "numeric_text"}}

\* TaskManagerApp.__init__ on a machine where the file has some content and
\* an earlier run may have left processes suspended
RecoveryInit ==
    /\ ViewInit
    /\ app = "running"
    /\ runs = MaxRuns
    /\ now \in 0 .. 1
    /\ file \in LeftFiles
    /\ active_suspended = Absent
    /\ fileActor = NoActor
    /\ suspended \in SUBSET (Pids \cap Range(file.pids))
    /\ abandonedWait = FALSE
    /\ pc = [t \in Threads |-> "idle"]
    /\ pid_list = [t \in Threads |-> <<>>]
    /\ seconds = [t \in Threads |-> 0]
    /\ resume_time = [t \in Threads |-> 0]
    /\ suspended_pids = [t \in Threads |-> <<>>]
    /\ i = [t \in Threads |-> 0]
    /\ resumed = [t \in Threads |-> 0]
    /\ saved = [t \in Threads |-> "no"]
    /\ suspendOk = [t \in Threads |-> {}]
    /\ suspendFailed = [t \in Threads |-> {}]
    /\ resumeCalls = [t \in Threads |-> {}]
    /\ overlapped = [t \in Threads |-> FALSE]
    /\ rpc = "scheduled"
    /\ rstate = NoState
    /\ ri = 0
    /\ rvia = "none"
    /\ rcalls = {}

\* that run for as long as the app keeps running, with at most one STOP
\* request: the Tk main loop and the threads are scheduled and the clock
\* advances
RecoveryNext ==
    \/ \E pl \in PidLists, secs \in Durations : StopSelectedTask(1, pl, secs)
    \/ ThreadStep(1)
    \/ RecoveryStep
    \/ Tick

RecoverySpec ==
    /\ RecoveryInit
    /\ [][RecoveryNext]_vars
    /\ WF_vars(ThreadStep(1))
    /\ WF_vars(RecoveryStep)
    /\ WF_vars(Tick)

\* --------------------------------------------- sampling and grouping
\* names of processes
A_exe == <<"A", ".", "e", "x", "e">>
a_EXE_blank == <<" ", "a", ".", "E", "X", "E">>
a_1 == <<"a", "_", "1">>
b_name == <<"b">>
AggNames == {A_exe, a_EXE_blank, a_1, b_name, <<>>}

\* resident memory of a process in MB: half the default limit, or just over it
Mems == {DefaultLimit \div 2, DefaultLimit + 1}

\* the row psutil gives for a process, and the row of one whose
\* cpu_percent() raises
Row(name, mem, cpu, io) ==
    [present |-> TRUE, raises |-> FALSE, name |-> name, memory |-> mem,
     cpu |-> cpu, io |-> io]
RaisingRow == [present |-> TRUE, raises |-> TRUE]

AggRows ==
    {Row(n, DefaultLimit \div 2, 0, 0) : n \in AggNames}
        \cup {Row(A_exe, m, c, io) : m \in Mems, c \in 0 .. MaxCpu, io \in 0 .. MaxIo}
        \cup {NoProcess, RaisingRow}

\* the app has run for a while: some processes are there and the counters of
\* some pids were recorded at time 0
AggInit ==
    /\ SchedulerInit
    /\ process_iter \in [Pids -> AggRows]
    /\ last_net_io \in [Pids -> {NoNetIo} \cup
                            {[seen |-> TRUE, bytes |-> io, time |-> 0] : io \in 0 .. MaxIo}]
    /\ DisplayInit
    /\ refreshing = FALSE
    /\ refresh_pc = [r \in Refreshers |-> "idle"]
    /\ refresh_timers = NextAutoRefresh(NoTimers)
    /\ refresh_dropped = "none"

\* refresh cycles on these processes as time goes by, the displays left queued
AggNext ==
    \/ UpdateProcessesList
    \/ Tick

AggSpec == AggInit /\ [][AggNext]_vars

\* ------------------------------------------------------ display cycles
\* the lowest pid is an A.exe of either size or gone; any other is an A.exe of
\* half the limit, a process "b" over the limit, or gone
ViewRows(pid) ==
    IF pid = 1
    THEN {Row(A_exe, m, 0, 0) : m \in Mems} \cup {NoProcess}
    ELSE {Row(A_exe, DefaultLimit \div 2, 0, 0), Row(b_name, DefaultLimit + 1, 0, 0),
          NoProcess}
LimitEntries == {NumberEntry(v) : v \in {-1, 0, DefaultLimit}} \cup {TextEntry}
SearchTexts == {<<>>, <<"A">>, <<"2">>}

\* refreshes, displays, searches and edits of the limit while the processes
\* of the machine come, go and change their memory
ViewNext ==
    \/ UpdateProcessesList
    \/ DisplayCallback
    \/ \E text \in SearchTexts : SearchProcess(text)
    \/ \E entry \in LimitEntries : EditMemoryLimit(entry)
    \/ \E pid \in Pids : \E row \in ViewRows(pid) : ProcessChange(pid, row)

ViewSpec == Init /\ [][ViewNext]_vars

\* ------------------------------------------------------ refresh cycles
\* the lowest pid is an A.exe of half the limit, or gone
RefreshRows == {Row(A_exe, DefaultLimit \div 2, 0, 0), NoProcess}

\* one step of refresh thread r
RefreshStep(r) ==
    \/ RefreshBegin(r)
    \/ RefreshPublish(r)
    \/ RefreshEnd(r)

\* time passes, timers fire, the operator asks for refreshes, the refresh
\* threads run and the queued displays are shown while a process comes and
\* goes
RefreshNext ==
    \/ IntervalPasses
    \/ AutoRefreshTimer
    \/ OperatorRefresh
    \/ \E r \in Refreshers : RefreshStep(r)
    \/ DisplayCallback
    \/ \E row \in RefreshRows : ProcessChange(1, row)

\* the threads are scheduled and the Tk main loop runs its timers and
\* callbacks; nothing forces the operator
RefreshSpec ==
    /\ Init
    /\ [][RefreshNext]_vars
    /\ \A r \in Refreshers : WF_vars(RefreshStep(r))
    /\ WF_vars(IntervalPasses)
    /\ WF_vars(AutoRefreshTimer)
    /\ WF_vars(DisplayCallback)

\* ================================================================ claims
\* a request whose record was written and which has not cleared it yet
InFlight(t) == saved[t] = "ok" /\ pc[t] \in {"suspend", "wait", "resume", "clear"}

\* the file holds the record thread t wrote, and t's suspend loop is over
RecordOf(t) ==
    /\ file.exists
    /\ fileActor = ThreadActor(t)
    /\ saved[t] = "ok"
    /\ pc[t] \in {"wait", "resume", "clear"}

\* C1: in every reachable state every process the app has suspended and not
\* yet attempted to resume is listed in the pids of the persisted record.
C1_NoUntrackedSuspended == suspended \subseteq RecordPids

C3_RecordSurvivesShutdown == abandonedWait => file.exists

\* C4: while a scheduler is in flight no step of another code path changes
\* the persisted record.
C4_NoInterleavedRecordAccess ==
    [][\A t \in Threads : InFlight(t) /\ file' # file => pc'[t] # pc[t]]_vars

\* C5: a request with seconds <= 0 is rejected: its thread persists no record.
C5_NonPositiveRejected ==
    [][\A t \in Threads :
          pc[t] = "start" /\ seconds[t] <= 0 /\ pc'[t] = "suspend" => saved'[t] # "ok"]_vars

\* C6: once a request issued during an earlier request's wait has written its
\* record, the file holds that request's pids and resume time until its own
\* deadline is serviced.
C6_LastWriteStays ==
    \A u \in Threads :
        /\ overlapped[u]
        /\ saved[u] = "ok"
        /\ pc[u] \in {"suspend", "wait"}
        /\ \A v \in Threads : v > u => pc[v] = "idle"
        => /\ file.exists
           /\ file.pids = pid_list[u]
           /\ file.resume_time = resume_time[u]

\* C7 as stated: after the suspend attempts of its request the record's pids
\* are exactly the pids that were suspended successfully.
C7_RecordHoldsSucceeded ==
    \A t \in Threads : RecordOf(t) => file.pids = suspended_pids[t]

\* C7 as amended: after the suspend attempts of its request the record's pids
\* are exactly the pids the request asked to suspend, failed ones included.
C7_RecordHoldsRequested ==
    \A t \in Threads : RecordOf(t) => file.pids = pid_list[t]

\* C7 witness: the record of a finished suspend loop lists a pid whose suspend failed
C7_Witness ==
    \E t \in Threads : RecordOf(t) /\ suspendFailed[t] \cap Range(file.pids) # {}

\* C8: when the resume loop of a live scheduler is over, resume has been
\* called on exactly the pids whose suspend succeeded, on none whose suspend
\* failed, whatever the outcome of each resume call.
C8_ResumeExactlySucceeded ==
    \A t \in Threads :
        /\ pc[t] = "resume" => resumeCalls[t] \subseteq suspendOk[t]
        /\ pc[t] = "clear" =>
              /\ resumeCalls[t] = suspendOk[t]
              /\ resumeCalls[t] \cap suspendFailed[t] = {}

\* C8 witness: resume was called on two pids although every call failed, and
\* a thread with a failed suspend reached the end of its resume loop
C8_Witness ==
    /\ \E t \in Threads :
          pc[t] = "clear" /\ Cardinality(resumeCalls[t]) >= 2 /\ resumed[t] = 0
    /\ \E t \in Threads :
          pc[t] = "clear" /\ suspendFailed[t] # {} /\ resumeCalls[t] # {}

C11_FutureRecordPrompts ==
    /\ [][/\ rpc = "scheduled" /\ rpc' # "scheduled" /\ app' = "running"
          /\ file.exists /\ file.resume_time > now
          => rpc' = "prompt"]_vars
    /\ [][rvia # "immediate" /\ rvia' = "immediate" => rstate'.resume_time <= now]_vars

\* C20: a live scheduler computes its deadline as the time its thread starts
\* plus the duration, leaves its wait only once that deadline is reached (or
\* with the shutdown of the app), and calls resume and clears the record only
\* past its wait.
C20_NoResumeBeforeDeadline ==
    /\ [][\A t \in Threads :
             pc[t] = "start" /\ pc'[t] = "suspend" =>
                 resume_time'[t] = now + seconds[t]]_vars
    /\ [][\A t \in Threads :
             pc[t] = "wait" /\ pc'[t] # "wait" =>
                 \/ now >= resume_time[t] /\ pc'[t] \in {"resume", "clear"}
                 \/ app' = "down" /\ pc'[t] = "killed"]_vars
    /\ [][\A t \in Threads :
             /\ pc'[t] = "resume" => pc[t] \in {"wait", "resume"}
             /\ pc'[t] = "clear" => pc[t] \in {"wait", "resume", "clear"}
             /\ resumeCalls'[t] \notin {resumeCalls[t], {}} => pc[t] = "resume"
             /\ file.exists /\ ~file'.exists /\ fileActor' = ThreadActor(t)
                    => pc[t] = "clear"]_vars

\* C20 witness: a thread that suspended a pid is in its resume loop at the very
\* deadline its record, still on disk, gives, after a real wait
C20_Witness ==
    \E t \in Threads :
        /\ pc[t] = "resume" /\ suspendOk[t] # {}
        /\ file.exists /\ fileActor = ThreadActor(t)
        /\ file.resume_time = now /\ now >= TicksPerSecond

\* the claim's usable record: pids is a list and resume_time is present
Usable(f) ==
    /\ f.exists
    /\ Document(f).kind = "object"
    /\ Document(f).pids = "list"
    /\ Document(f).resume_time # "missing"

C13_CorruptTreatedAsAbsent ==
    /\ [](rpc # "raised")
    /\ [][rpc = "scheduled" /\ rpc' # "scheduled" =>
             IF Usable(file)
             THEN rpc' \in {"resume", "clear", "prompt"}
             ELSE rpc' = "done" /\ file' = file /\ suspended' = suspended]_vars

\* the rows of the tree flagged high_memory
FlaggedRows == {k \in 1 .. Len(tree) : tree[k].tag = "high_memory"}

\* the last display read a limit that is a number above 0
LimitEnabled == shown_limit.kind = "number" /\ shown_limit.value > 0

\* C14 as stated: no display notifies a name again that was notified before
\* and whose group has been over the limit ever since.
C14_NoRepeatedNotification == repeated = {}

\* C15: after every display alerted_names is exactly the set of the display
\* names of the groups that display flagged high.
C15_AlertedIsCurrentHigh ==
    alerted_names = {tree[k].text : k \in FlaggedRows}

\* C15 witness: a display that notified nothing left one name alerted and
\* another, shown below the limit, not alerted
C15_Witness ==
    /\ toasts = {} /\ Len(tree) = 2 /\ Cardinality(FlaggedRows) = 1
    /\ alerted_names = {tree[k].text : k \in FlaggedRows}
    /\ display_due = 0 /\ Len(all_processes) = 2

\* C16: a group is flagged high exactly when the limit is above 0 and the
\* memory sum of the group is above the limit; with a limit of 0, a negative
\* one or none nothing is flagged and nothing notified.
C16_HighIffOverPositiveLimit ==
    /\ \A k \in 1 .. Len(tree) :
          k \in FlaggedRows <=> (LimitEnabled /\ tree[k].memory > shown_limit.value)
    /\ ~LimitEnabled => FlaggedRows = {} /\ toasts = {} /\ alerted_names = {}

\* C16 witness: a display under a negative limit showed a group of over 200 MB,
\* unflagged
C16_Witness ==
    /\ shown_limit.kind = "number" /\ shown_limit.value < 0
    /\ \E k \in 1 .. Len(tree) : tree[k].memory > DefaultLimit /\ tree[k].tag = ""

RECURSIVE SumMemory(_, _)
\* the sum of per_pid[p].memory over the pids of a list
SumMemory(per_pid, pids) ==
    IF pids = <<>> THEN 0
    ELSE per_pid[Head(pids)].memory + SumMemory(per_pid, Tail(pids))

\* C17: in every group of all_processes the memory sum is the sum of the
\* per-pid memory over the group's pids, and the pids of the group are the
\* keys of per_pid, each once.
C17_MemorySumOfMembers ==
    \A k \in 1 .. Len(all_processes) :
        LET g == all_processes[k] IN
        /\ Range(g.pids) = DOMAIN g.per_pid
        /\ Cardinality(Range(g.pids)) = Len(g.pids)
        /\ g.memory = SumMemory(g.per_pid, g.pids)

\* C17 witness: a group of two processes of different memory
C17_Witness ==
    \E k \in 1 .. Len(all_processes) :
        LET g == all_processes[k] IN
        /\ Len(g.pids) = 2
        /\ g.per_pid[g.pids[1]].memory # g.per_pid[g.pids[2]].memory

\* the pids the last aggregation took into a group
Sampled == {p \in Pids : samples[p].present /\ ~samples[p].raises}

\* p and q are members of one group
SameGroup(p, q) ==
    \E k \in 1 .. Len(all_processes) :
        {p, q} \subseteq Range(all_processes[k].pids)

\* the pids of every group are sampled pids, and every sampled pid is in
\* exactly one group
GroupsPartitionSampled ==
    /\ \A p \in Sampled :
          Cardinality({k \in 1 .. Len(all_processes) :
                          p \in Range(all_processes[k].pids)}) = 1
    /\ \A k \in 1 .. Len(all_processes) : Range(all_processes[k].pids) \subseteq Sampled

\* C18 as stated: two sampled processes are in the same group exactly when
\* both names, lower-cased, end in .exe and are equal.
C18_GroupedByExeName ==
    /\ GroupsPartitionSampled
    /\ \A p, q \in Sampled :
          p # q =>
             (SameGroup(p, q) <=>
                 /\ EndsWith(Lower(samples[p].name), DotExe)
                 /\ EndsWith(Lower(samples[q].name), DotExe)
                 /\ Lower(samples[p].name) = Lower(samples[q].name))

\* C18 as amended: two sampled processes are in the same group exactly when
\* both names, stripped of surrounding blanks and lower-cased, end in .exe and
\* are equal.
C18_GroupedByStrippedExeName ==
    /\ GroupsPartitionSampled
    /\ \A p, q \in Sampled :
          p # q =>
             (SameGroup(p, q) <=>
                 /\ EndsWith(Lower(RawName(samples[p].name)), DotExe)
                 /\ EndsWith(Lower(RawName(samples[q].name)), DotExe)
                 /\ Lower(RawName(samples[p].name)) = Lower(RawName(samples[q].name)))

\* C18 witness: "A.exe" and " a.EXE" are one group, shown as "A.exe"
C18_Witness ==
    /\ samples[1].present /\ ~samples[1].raises /\ samples[1].name = A_exe
    /\ samples[2].present /\ ~samples[2].raises /\ samples[2].name = a_EXE_blank
    /\ Len(all_processes) = 1
    /\ all_processes[1].pids = <<1, 2>>
    /\ all_processes[1].display_name = A_exe

\* a group without its network values
WithoutNetwork(g) ==
    [key |-> g.key, display_name |-> g.display_name, pids |-> g.pids,
     cpu |-> g.cpu, memory |-> g.memory, power |-> g.power,
     per_pid |-> [p \in DOMAIN g.per_pid |->
                     [cpu |-> g.per_pid[p].cpu, memory |-> g.per_pid[p].memory,
                      power |-> g.per_pid[p].power]]]

\* an aggregation reads the rows the last aggregation read
SameSamplesAgain == display_due' > display_due /\ samples = process_iter

\* C19 as stated: an aggregation of the rows the last one read yields the
\* same groups, network values included.
C19_AggregationIdempotent ==
    [][SameSamplesAgain => all_processes' = all_processes]_vars

\* C19 as amended: an aggregation of the rows the last one read yields the
\* same groups in the same order, with the same keys, names, members, cpu,
\* memory and power sums and per-pid details; the network values are taken
\* against the counters of the last cycle and may differ.
C19_IdempotentButNetwork ==
    [][SameSamplesAgain =>
          /\ Len(all_processes') = Len(all_processes)
          /\ \A k \in 1 .. Len(all_processes) :
                WithoutNetwork(all_processes'[k]) = WithoutNetwork(all_processes[k])]_vars

\* C19 witness: the same two processes were grouped twice, and their counters
\* had moved before the first time
C19_Witness ==
    /\ display_due = 2 /\ samples = process_iter
    /\ Len(all_processes) = 1 /\ Len(all_processes[1].pids) = 2
    /\ \A p \in Pids : last_net_io[p].seen /\ last_net_io[p].bytes > 0
    /\ all_processes[1].network = 0

\* a message of thread t that tells the operator of a failure
FailureReported(t) ==
    \E m \in ThreadMessages(t) : m.box \in {"showerror", "showwarning"}

\* C21: when writing the record failed, a request that has suspended
\* processes with no record on disk has reported the failure to the operator.
C21_SaveFailureSurfaced ==
    \A t \in Threads :
        /\ saved[t] = "failed"
        /\ pc[t] \in {"wait", "resume", "clear"}
        /\ suspendOk[t] \cap suspended # {}
        /\ ~file.exists
        => FailureReported(t)

\* C22: a display cycle run while the limit entry holds a text float()
\* rejects leaves alerted_names as it was.
C22_UnparsableLimitChangesNothing ==
    [][DisplayCallback /\ memory_limit_entry.kind = "text"
          => alerted_names' = alerted_names]_vars

\* how often pid p is listed in the groups of all_processes
Memberships(p) ==
    Cardinality({<<k, j>> \in (1 .. Len(all_processes)) \X (1 .. MaxPid) :
                    /\ j <= Len(all_processes[k].pids)
                    /\ all_processes[k].pids[j] = p})

\* the rows the last aggregation enumerated, and those whose detail read raised
Enumerated == {p \in Pids : samples[p].present}
Dropped == {p \in Enumerated : samples[p].raises}

\* C25: in the published list every enumerated pid whose read did not raise is
\* listed once, in one group, with the cpu and memory that were read; a pid
\* whose read raised is in no group; no group is empty.
C25_KeptPidsOnceDroppedNever ==
    display_due > 0 =>
        /\ \A p \in Enumerated \ Dropped :
              /\ Memberships(p) = 1
              /\ \E k \in 1 .. Len(all_processes) :
                    /\ p \in DOMAIN all_processes[k].per_pid
                    /\ all_processes[k].per_pid[p].cpu = samples[p].cpu
                    /\ all_processes[k].per_pid[p].memory = samples[p].memory
        /\ \A p \in Pids \ (Enumerated \ Dropped) :
              /\ Memberships(p) = 0
              /\ \A k \in 1 .. Len(all_processes) : p \notin DOMAIN all_processes[k].per_pid
        /\ \A k \in 1 .. Len(all_processes) : all_processes[k].pids # <<>>

\* C25 witness: the read of the lowest pid raised, and the list that was
\* published holds the process enumerated after it
C25_Witness ==
    /\ display_due > 0
    /\ 1 \in Dropped
    /\ MaxPid \in Enumerated \ Dropped
    /\ Len(all_processes) = 1
    /\ all_processes[1].pids = <<MaxPid>>

\* refresh thread r is between line 326 and line 391 of update_processes_list
RunInProgress(r) == refresh_pc[r] \in {"running", "ending"}

\* C23: at most one update_processes_list run is in progress, at most one
\* auto-refresh timer is pending, and the refreshing flag is up exactly while
\* a run is in progress.
C23_OneRefreshTask ==
    /\ Cardinality({r \in Refreshers : RunInProgress(r)}) <= 1
    /\ Pending(refresh_timers) <= 1
    /\ refreshing <=> \E r \in Refreshers : RunInProgress(r)

\* a refresh thread is started or running, or an auto-refresh timer is pending
RefreshAlive ==
    \/ \E r \in Refreshers : refresh_pc[r] # "idle"
    \/ Pending(refresh_timers) > 0

\* C24: in every reachable state a refresh run is started or in progress or
\* an auto-refresh timer is pending, and a list is published again and again.
C24_RefreshNeverStops ==
    /\ []RefreshAlive
    /\ []<><<\E r \in Refreshers : RefreshPublish(r)>>_vars
====
